---- MODULE Spec2Model ----
(***************************************************************************)
(* State-machine model of ezpass: the encrypted password store             *)
(* (src/src/password_db.py, class PasswordDatabase) as it is driven by a   *)
(* caller such as src/src/ezpass.py.                                       *)
(*                                                                         *)
(* Files on disk (passwords.db, .salt, .attempts) and the wall clock are   *)
(* the persistent state; the PasswordDatabase object is the session.       *)
(***************************************************************************)
EXTENDS Integers, Sequences, FiniteSets, TLC

VARIABLES dbFile,        \* passwords.db: [exists, rows], rows in rowid order
          saltFile,      \* .salt: 0 when the file is absent, else the salt
          attemptsFile,  \* .attempts: [kind, count, last_attempt]
          now,           \* time.time(), in seconds
          db,            \* the PasswordDatabase object of the running process
          ret,           \* what the last call returned / raised
          written,       \* history: last add_password of each title
          session_timer, \* ezpass.session_timer: [state, deadline]
          perm,          \* file modes: [db, salt, attempts, dir]
          clipboard,     \* the system clipboard: [content, clear_at]
          proc,          \* processes opening the vault side by side
          generated      \* the last call of generate_password

vars == <<dbFile, saltFile, attemptsFile, now, db, ret, written,
          session_timer, perm, clipboard, proc, generated>>

----------------------------------------------------------------------------
(* Bounds of the model *)

NumSalts == 2
MaxTime == 6
MaxCount == 4
SessionTimeout == 2   \* --timeout
ClearAfter == 1       \* --clipboard-timeout
MaxLength == 3        \* --length

(* Constants of the program *)

Threshold == 3
Cooldown == 5
MinLength == 12

----------------------------------------------------------------------------
(* Values *)

Max(a, b) == IF a >= b THEN a ELSE b

\* A passphrase is known by its identity and by what the strength check
\* of _get_master_password looks at.
NoPw == [id |-> 0, len |-> 0, upper |-> FALSE, lower |-> FALSE,
         digit |-> FALSE, special |-> FALSE]
PwStrong == [id |-> 1, len |-> 18, upper |-> TRUE, lower |-> TRUE,
             digit |-> TRUE, special |-> TRUE]
PwOther == [id |-> 2, len |-> 12, upper |-> TRUE, lower |-> TRUE,
            digit |-> TRUE, special |-> TRUE]
Passphrases == {PwStrong, PwOther}
\* one that fails every test of the strength check
PwWeak == [id |-> 3, len |-> 8, upper |-> FALSE, lower |-> TRUE,
           digit |-> FALSE, special |-> FALSE]

\* Titles are strings over a two-letter alphabet, as sequences of codes.
Titles == {<<1>>, <<1, 2>>, <<2>>}
\* codes of the characters ' " ; \ that ezpass.main refuses in a title
Denylist == {3, 4, 5, 6}
\* ezpass.main, lines 116-121 (and 164-169, 200-205)
ValidTitle(title) ==
    /\ Len(title) # 0
    /\ \A i \in DOMAIN title : title[i] \notin Denylist
\* the empty title and one with a backslash
RefusedTitles == {<<>>, <<1, 6>>}
NoTitle == <<>>
Secrets == {"hunter2", "p@ss1"}
None == "None"

NoKey == [pw |-> NoPw, salt |-> 0]
NoSession == [open |-> FALSE, master_password |-> NoPw, encryption_key |-> NoKey]

NoAttempts == [kind |-> "absent", count |-> 0, last_attempt |-> 0]
NoRet == [op |-> "none", title |-> NoTitle, val |-> None, ok |-> FALSE,
          titles |-> <<>>]
Blank == [present |-> FALSE, pw |-> NoPw, secret |-> None,
          closedSince |-> FALSE, updated |-> FALSE]

\* two processes, each constructing one PasswordDatabase at a time
Procs == {1, 2}
IdleProc == [pc |-> "idle", path |-> "none", current_time |-> 0,
             attempts_data |-> [kind |-> "absent", count |-> 0, last_attempt |-> 0]]

\* nothing generated yet
NotGenerated == [called |-> FALSE, length |-> 0, chars |-> {},
                 raised |-> FALSE, password |-> <<>>]

NoTimer == [state |-> "none", deadline |-> 0]
NoClipboard == [content |-> "", clear_at |-> -1]

\* modes of the files; a file made by open() or sqlite3 under umask 022
NoMode == "none"
CreatedFileMode == "644"
CreatedDirMode == "755"
OwnerOnlyFile == "600"
OwnerOnlyDir == "700"
\* open(path, 'w') keeps the mode of a file that exists
ModeAfterWrite(mode) == IF mode = NoMode THEN CreatedFileMode ELSE mode

----------------------------------------------------------------------------
(* Key derivation and the cipher *)

\* PBKDF2HMAC(salt).derive(password): a function of both arguments, and
\* different arguments give different keys.
DeriveKey(password, salt) == [pw |-> password, salt |-> salt]

\* a salt written anew at every open
SaltAlwaysFresh(file, fresh) == fresh

\* a salt made for each new database: written again while no database exists
SaltPerDatabase(file, fresh) == IF file = 0 \/ ~dbFile.exists THEN fresh ELSE file

\* _derive_key: the salt file is created only when it does not exist.
SaltAfter(file, fresh) == IF file = 0 THEN fresh ELSE file

\* Fernet.encrypt / Fernet.decrypt: a token opens under the key that made it
\* and is rejected (InvalidToken) under every other key.
Seal(plaintext, key) == [k |-> key, p |-> plaintext]
InvalidToken == "InvalidToken"
Unseal(token, key) == IF token.k = key THEN token.p ELSE InvalidToken

----------------------------------------------------------------------------
(* The attempt-state file *)

\* What .attempts can hold: no file, an empty file, bytes that are not JSON,
\* JSON without a "count" key, JSON with "count" but no "last_attempt",
\* and the record the program writes itself.
AttemptKinds == {"absent", "empty", "garbage", "nocount", "nolast", "ok"}

AttemptsRecord(c, t) == [kind |-> "ok", count |-> c, last_attempt |-> t]

\* json.load succeeds on the file
Parses(file) == file.kind \in {"nocount", "nolast", "ok"}
HasCount(data) == data.kind \in {"nolast", "ok"}
HasLast(data) == data.kind = "ok"

\* _get_master_password, lines 105-113: the default is kept when the file
\* is absent or json.load raises.
LoadAttempts(file) == IF Parses(file) THEN file ELSE AttemptsRecord(0, 0)

\* the count an unlock attempt finds persisted
failedCount == IF HasCount(attemptsFile) THEN attemptsFile.count ELSE 0

\* lines 117-119
DelayNeeded(data, current_time) ==
    IF data.count >= Threshold
    THEN Max(0, Cooldown - (current_time - data.last_attempt))
    ELSE 0

\* lines 117-118 raise KeyError when a key they read is missing
LookupFails(data) ==
    \/ ~HasCount(data)
    \/ data.count >= Threshold /\ ~HasLast(data)

\* lines 128-129: both keys are set afterwards
RecordAttempt(data, current_time) ==
    AttemptsRecord(data.count + 1, current_time)

\* __init__, lines 61-69: the handler of a failed initialisation
BumpOnFailure(file) ==
    IF file.kind # "absent" /\ Parses(file) /\ HasCount(file)
    THEN [file EXCEPT !.count = @ + 1]
    ELSE file

\* __init__, lines 56-58: os.path.exists(db_path) holds after _init_db
ResetOnSuccess(file, t) ==
    IF file.kind # "absent" THEN AttemptsRecord(0, t) ELSE file

----------------------------------------------------------------------------
(* Opening the vault *)

\* _get_master_password, lines 85-96
IsStrong(password) ==
    /\ password.len >= MinLength
    /\ password.upper /\ password.lower /\ password.digit /\ password.special

\* _init_db: CREATE TABLE IF NOT EXISTS
InitDb(file) == IF file.exists THEN file ELSE [exists |-> TRUE, rows |-> <<>>]

OpenResult(okay, what) ==
    [op |-> "open", title |-> NoTitle, val |-> what, ok |-> okay, titles |-> <<>>]

\* __init__, lines 48-70, entered with the attempt file as `file` at time t.
\* `fault` is sqlite3 raising in _init_db (after _derive_key has run).
Construct(password, fresh, fault, file, t) ==
    /\ now' = t
    /\ saltFile' = SaltAfter(saltFile, fresh)
    /\ IF fault
       THEN /\ attemptsFile' = BumpOnFailure(file)
            /\ dbFile' = dbFile
            /\ db' = NoSession
            /\ ret' = OpenResult(FALSE, "Error")
       ELSE /\ attemptsFile' = ResetOnSuccess(file, t)
            /\ dbFile' = InitDb(dbFile)
            /\ db' = [open |-> TRUE, master_password |-> password,
                      encryption_key |-> DeriveKey(password, saltFile')]
            /\ ret' = OpenResult(TRUE, "ok")
    /\ attemptsFile'.count <= MaxCount
    /\ perm' = [db |-> IF fault THEN perm.db ELSE OwnerOnlyFile,
                dir |-> IF fault THEN perm.dir ELSE OwnerOnlyDir,
                salt |-> IF saltFile = 0 THEN OwnerOnlyFile ELSE perm.salt,
                attempts |-> IF file.kind = "absent" THEN NoMode
                             ELSE ModeAfterWrite(perm.attempts)]
    /\ UNCHANGED <<written, session_timer, clipboard, proc, generated>>

\* PasswordDatabase(master_password=None): the passphrase is prompted for.
\* `tty` is FALSE when getpass raises EOFError (no terminal).
OpenPrompt(password, fresh, fault, tty) ==
    /\ ~db.open
    /\ IF ~dbFile.exists
       THEN \* lines 75-101: the loop ends only with a strong, confirmed one
            IF tty
            THEN /\ IsStrong(password)
                 /\ Construct(password, fresh, fault, attemptsFile, now)
            ELSE /\ ret' = OpenResult(FALSE, "SystemExit")
                 /\ UNCHANGED <<dbFile, saltFile, attemptsFile, now, db, written,
                                session_timer, perm, clipboard, proc, generated>>
       ELSE LET data == LoadAttempts(attemptsFile)
                current_time == now
            IN IF LookupFails(data)
               THEN /\ ret' = OpenResult(FALSE, "KeyError")
                    /\ UNCHANGED <<dbFile, saltFile, attemptsFile, now, db, written,
                                   session_timer, perm, clipboard, proc, generated>>
               ELSE LET woken == current_time + DelayNeeded(data, current_time)
                    IN /\ woken <= MaxTime
                       /\ IF tty
                          THEN Construct(password, fresh, fault,
                                         RecordAttempt(data, current_time), woken)
                          ELSE /\ now' = woken
                               /\ ret' = OpenResult(FALSE, "SystemExit")
                               /\ UNCHANGED <<dbFile, saltFile, attemptsFile, db, written,
                                              session_timer, perm, clipboard, proc, generated>>

\* PasswordDatabase(master_password=password): lines 45-46, then 48-70
OpenGiven(password, fresh, fault) ==
    /\ ~db.open
    /\ Construct(password, fresh, fault, attemptsFile, now)

\* a process that removes its attempt record when it ends
ExitForgetsAttempts ==
    /\ db' = NoSession
    /\ ret' = [NoRet EXCEPT !.op = "exit"]
    /\ written' = [t \in DOMAIN written |->
                     IF written[t].present
                     THEN [written[t] EXCEPT !.closedSince = TRUE]
                     ELSE written[t]]
    /\ attemptsFile' = NoAttempts
    /\ session_timer' = NoTimer
    /\ clipboard' = [clipboard EXCEPT !.clear_at = -1]
    /\ perm' = [perm EXCEPT !.attempts = NoMode]
    /\ UNCHANGED <<dbFile, saltFile, now, proc, generated>>

\* the process ends (ezpass.main returns or calls sys.exit); the object and
\* the key in it are gone and the daemon threads (the session timer, a
\* pending clipboard clear) die with it; the files stay
Exit ==
    /\ db' = NoSession
    /\ ret' = [NoRet EXCEPT !.op = "exit"]
    /\ written' = [t \in DOMAIN written |->
                     IF written[t].present
                     THEN [written[t] EXCEPT !.closedSince = TRUE]
                     ELSE written[t]]
    /\ session_timer' = NoTimer
    /\ clipboard' = [clipboard EXCEPT !.clear_at = -1]
    /\ UNCHANGED <<dbFile, saltFile, attemptsFile, now, perm, proc, generated>>

\* time passes; a timer that is due runs before the clock moves on
Tick ==
    /\ now < MaxTime
    /\ ~(session_timer.state = "armed" /\ now >= session_timer.deadline)
    /\ now' = now + 1
    /\ UNCHANGED <<dbFile, saltFile, attemptsFile, db, ret, written,
                   session_timer, perm, clipboard, proc, generated>>

----------------------------------------------------------------------------
(* The passwords table *)

\* the row of a title, by rowid: what fetchone() returns first
RowsOf(rows, title) == SelectSeq(rows, LAMBDA r : r.title = title)
HasTitle(rows, title) == \E i \in DOMAIN rows : rows[i].title = title

\* a plain INSERT into a table without the UNIQUE constraint
UpsertAsInsert(rows, title, token) ==
    Append(rows, [title |-> title, password |-> token])

\* INSERT ... ON CONFLICT(title) DO UPDATE SET password = excluded.password
Upsert(rows, title, token) ==
    IF HasTitle(rows, title)
    THEN [i \in DOMAIN rows |->
            IF rows[i].title = title
            THEN [rows[i] EXCEPT !.password = token]
            ELSE rows[i]]
    ELSE Append(rows, [title |-> title, password |-> token])

\* a DELETE whose WHERE clause matches every row once one row matches
DeleteRowsUnfiltered(rows, title) ==
    IF \E i \in DOMAIN rows : rows[i].title = title THEN <<>> ELSE rows

\* DELETE FROM passwords WHERE title = ?
DeleteRows(rows, title) == SelectSeq(rows, LAMBDA r : r.title # title)

\* the BINARY collation of TEXT: memcmp, then the shorter string first
RECURSIVE TitleLess(_, _)
TitleLess(a, b) ==
    IF a = <<>> THEN b # <<>>
    ELSE IF b = <<>> THEN FALSE
    ELSE IF Head(a) # Head(b) THEN Head(a) < Head(b)
    ELSE TitleLess(Tail(a), Tail(b))

\* ORDER BY title
RECURSIVE InsertSorted(_, _)
InsertSorted(sorted, title) ==
    IF sorted = <<>> THEN <<title>>
    ELSE IF TitleLess(title, Head(sorted)) THEN <<title>> \o sorted
    ELSE <<Head(sorted)>> \o InsertSorted(Tail(sorted), title)

\* a SELECT without ORDER BY: rowid order
OrderByRowid(rows) == [i \in DOMAIN rows |-> rows[i].title]

RECURSIVE OrderByTitle(_)
OrderByTitle(rows) ==
    IF rows = <<>> THEN <<>>
    ELSE InsertSorted(OrderByTitle(Tail(rows)), Head(rows).title)

----------------------------------------------------------------------------
(* Operations of an open PasswordDatabase.  `dberr` is sqlite3.Error raised *)
(* by the statement.                                                        *)

add_password(title, password, dberr) ==
    /\ db.open
    /\ LET encrypted_password == Seal(password, db.encryption_key)
       IN IF db.encryption_key = NoKey
          THEN \* line 209: None has no encrypt; raised before the table is opened
               /\ ret' = [NoRet EXCEPT !.op = "add", !.title = title,
                            !.val = "AttributeError"]
               /\ UNCHANGED <<dbFile, written>>
          ELSE IF dberr
          THEN /\ ret' = [NoRet EXCEPT !.op = "add", !.title = title]
               /\ UNCHANGED <<dbFile, written>>
          ELSE /\ dbFile' = [dbFile EXCEPT
                               !.rows = Upsert(@, title, encrypted_password)]
               /\ ret' = [NoRet EXCEPT !.op = "add", !.title = title, !.ok = TRUE]
               /\ written' = [written EXCEPT ![title] =
                                [present |-> TRUE, pw |-> db.master_password,
                                 secret |-> password, closedSince |-> FALSE,
                                 updated |-> written[title].present
                                             /\ ~written[title].closedSince]]
    /\ UNCHANGED <<saltFile, attemptsFile, now, db, session_timer, perm, clipboard, proc, generated>>

get_password(title, dberr) ==
    /\ db.open
    /\ LET result == RowsOf(dbFile.rows, title)
           decrypted == IF result # <<>>
                        THEN Unseal(result[1].password, db.encryption_key)
                        ELSE None
       IN ret' = [NoRet EXCEPT !.op = "read", !.title = title,
                    !.val = IF dberr \/ decrypted = InvalidToken
                            THEN None ELSE decrypted]
    /\ UNCHANGED <<dbFile, saltFile, attemptsFile, now, db, written,
                   session_timer, perm, clipboard, proc, generated>>

list_passwords(dberr) ==
    /\ db.open
    /\ ret' = [NoRet EXCEPT !.op = "list",
                 !.titles = IF dberr THEN <<>> ELSE OrderByTitle(dbFile.rows)]
    /\ UNCHANGED <<dbFile, saltFile, attemptsFile, now, db, written,
                   session_timer, perm, clipboard, proc, generated>>

delete_password(title, dberr) ==
    /\ db.open
    /\ IF dberr
       THEN /\ ret' = [NoRet EXCEPT !.op = "delete", !.title = title]
            /\ UNCHANGED <<dbFile, written>>
       ELSE LET rowcount == Len(dbFile.rows) - Len(DeleteRows(dbFile.rows, title))
            IN /\ dbFile' = [dbFile EXCEPT !.rows = DeleteRows(@, title)]
               /\ ret' = [NoRet EXCEPT !.op = "delete", !.title = title,
                            !.ok = rowcount > 0]
               /\ written' = [written EXCEPT ![title] = Blank]
    /\ UNCHANGED <<saltFile, attemptsFile, now, db, session_timer, perm, clipboard, proc, generated>>

----------------------------------------------------------------------------
(* The session of ezpass.main: the idle timer and the clipboard *)

\* start_session_timer, lines 38-45: the old timer is cancelled, a new one set
StartTimer(t) == [state |-> "armed", deadline |-> t + SessionTimeout]

\* main, line 102: called once, right after the database is constructed
start_session_timer ==
    /\ db.open
    /\ ret.op = "open"
    /\ session_timer.state = "none"
    /\ session_timer' = StartTimer(now)
    /\ UNCHANGED <<dbFile, saltFile, attemptsFile, now, db, ret, written,
                   perm, clipboard, proc, generated>>

\* clear_session, run by the threading.Timer thread when the timer is due:
\* the passphrase and the key are set to None; sys.exit(0) raises SystemExit
\* in the timer thread, which ends that thread and not the process
clear_session ==
    /\ session_timer.state = "armed"
    /\ now >= session_timer.deadline
    /\ db' = [db EXCEPT !.master_password = NoPw, !.encryption_key = NoKey]
    /\ session_timer' = [session_timer EXCEPT !.state = "fired"]
    /\ UNCHANGED <<dbFile, saltFile, attemptsFile, now, ret, written,
                   perm, clipboard, proc, generated>>

\* clipboard.copy_to_clipboard, lines 17-55: the tool that is run, if any
RunsTool(system, tool) ==
    \/ system = "Linux" /\ tool \in {"xclip", "xsel"}
    \/ system \in {"Darwin", "Windows"}

Systems == {"Linux", "Darwin", "Windows", "Other"}
Tools == {"xclip", "xsel", "none"}

\* copy_to_clipboard(text, clear_after): every branch of the try statement
\* returns (lines 26, 32, 36, 41, 47, 51, 55), so lines 57-73, which start
\* the clearing thread, are never reached and clear_at is never set
copy_to_clipboard(text, clear_after, system, tool, returncode) ==
    /\ db.open
    /\ LET copied == RunsTool(system, tool) /\ returncode = 0
       IN /\ clipboard' = IF copied THEN [clipboard EXCEPT !.content = text]
                                    ELSE clipboard
          /\ ret' = [NoRet EXCEPT !.op = "copy", !.ok = copied]
    /\ UNCHANGED <<dbFile, saltFile, attemptsFile, now, db, written,
                   session_timer, perm, proc, generated>>

----------------------------------------------------------------------------
(* The store, with a healthy disk, a terminal and a stopped clock *)

Init ==
    /\ dbFile = [exists |-> FALSE, rows |-> <<>>]
    /\ saltFile = 0
    /\ attemptsFile = NoAttempts
    /\ now = 0
    /\ db = NoSession
    /\ ret = NoRet
    /\ written = [t \in Titles \cup RefusedTitles |-> Blank]
    /\ session_timer = NoTimer
    /\ perm = [db |-> NoMode, salt |-> NoMode, attempts |-> NoMode,
               dir |-> CreatedDirMode]
    /\ clipboard = NoClipboard
    /\ proc = [p \in Procs |-> IdleProc]
    /\ generated = NotGenerated

Next ==
    \/ \E p \in Passphrases, s \in 1..NumSalts : OpenPrompt(p, s, FALSE, TRUE)
    \/ \E p \in Passphrases, s \in 1..NumSalts : OpenGiven(p, s, FALSE)
    \/ Exit
    \/ \E t \in Titles, s \in Secrets : add_password(t, s, FALSE)
    \/ \E t \in Titles : get_password(t, FALSE)
    \/ list_passwords(FALSE)
    \/ \E t \in Titles : delete_password(t, FALSE)

Spec == Init /\ [][Next]_vars

----------------------------------------------------------------------------
(* The throttle: the clock runs, sqlite3 may fail, there may be no         *)
(* terminal; one title and one secret are enough for the store.            *)

NextThrottle ==
    \/ Tick
    \/ \E p \in Passphrases, s \in 1..NumSalts, fault, tty \in BOOLEAN :
          OpenPrompt(p, s, fault, tty)
    \/ \E p \in Passphrases, s \in 1..NumSalts, fault \in BOOLEAN :
          OpenGiven(p, s, fault)
    \/ Exit
    \/ \E dberr \in BOOLEAN : add_password(<<1>>, "hunter2", dberr)
    \/ \E dberr \in BOOLEAN : get_password(<<1>>, dberr)
    \/ \E dberr \in BOOLEAN : list_passwords(dberr)
    \/ \E dberr \in BOOLEAN : delete_password(<<1>>, dberr)

SpecThrottle == Init /\ [][NextThrottle]_vars

\* somebody else writes the attempt file
CorruptAttempts(kind, c) ==
    /\ ~db.open
    /\ dbFile.exists
    /\ kind \in AttemptKinds \ {"absent", "ok"}
    /\ attemptsFile' = [kind |-> kind,
                        count |-> IF kind = "nolast" THEN c ELSE 0,
                        last_attempt |-> 0]
    /\ perm' = [perm EXCEPT !.attempts = ModeAfterWrite(@)]
    /\ UNCHANGED <<dbFile, saltFile, now, db, ret, written,
                   session_timer, clipboard, proc, generated>>

RemoveAttempts ==
    /\ ~db.open
    /\ dbFile.exists
    /\ attemptsFile' = NoAttempts
    /\ perm' = [perm EXCEPT !.attempts = NoMode]
    /\ UNCHANGED <<dbFile, saltFile, now, db, ret, written,
                   session_timer, clipboard, proc, generated>>

NextDamaged ==
    \/ NextThrottle
    \/ \E kind \in AttemptKinds, c \in 0..MaxCount : CorruptAttempts(kind, c)
    \/ RemoveAttempts

SpecDamaged == Init /\ [][NextDamaged]_vars

\* time.time() is the wall clock: it can be set back between two attempts
ClockSetBack ==
    /\ ~db.open
    /\ now > 0
    /\ now' = now - 1
    /\ UNCHANGED <<dbFile, saltFile, attemptsFile, db, ret, written,
                   session_timer, perm, clipboard, proc, generated>>

NextClock ==
    \/ NextThrottle
    \/ ClockSetBack

SpecClock == Init /\ [][NextClock]_vars

----------------------------------------------------------------------------
(* A session as ezpass.main runs it: the idle timer is started after the   *)
(* open, the clock runs, secrets go to the clipboard.                      *)

NextSession ==
    \/ Tick
    \/ \E p \in Passphrases, s \in 1..NumSalts : OpenPrompt(p, s, FALSE, TRUE)
    \/ \E p \in Passphrases, s \in 1..NumSalts : OpenGiven(p, s, FALSE)
    \/ start_session_timer
    \/ clear_session
    \/ Exit
    \/ add_password(<<1>>, "hunter2", FALSE)
    \/ get_password(<<1>>, FALSE)
    \/ list_passwords(FALSE)
    \/ delete_password(<<1>>, FALSE)
    \/ \E c \in {0, ClearAfter}, system \in Systems, tool \in Tools,
          returncode \in {0, 1} :
          copy_to_clipboard("hunter2", c, system, tool, returncode)

SpecSession == Init /\ [][NextSession]_vars

----------------------------------------------------------------------------
(* A caller of PasswordDatabase that passes whatever it likes: titles that *)
(* ezpass.main would refuse, a passphrase that the strength check would.   *)

CallerTitles == {<<1>>} \cup RefusedTitles
CallerPassphrases == {PwStrong, PwWeak}

NextCaller ==
    \/ \E p \in CallerPassphrases, s \in 1..NumSalts : OpenPrompt(p, s, FALSE, TRUE)
    \/ \E p \in CallerPassphrases, s \in 1..NumSalts : OpenGiven(p, s, FALSE)
    \/ Exit
    \/ \E t \in CallerTitles : add_password(t, "hunter2", FALSE)
    \/ \E t \in CallerTitles : get_password(t, FALSE)
    \/ list_passwords(FALSE)
    \/ \E t \in CallerTitles : delete_password(t, FALSE)

SpecCaller == Init /\ [][NextCaller]_vars

----------------------------------------------------------------------------
(* A vault made under one passphrase and opened under another: in every    *)
(* behaviour the vault is created with Owner, and Intruder is tried only   *)
(* on the vault that exists.                                               *)

Owner == PwStrong
Intruder == PwOther

NextIntruder ==
    \/ Tick
    \/ \E s \in 1..NumSalts, fault, tty \in BOOLEAN :
          OpenPrompt(Owner, s, fault, tty)
    \/ \E s \in 1..NumSalts, fault \in BOOLEAN : OpenGiven(Owner, s, fault)
    \/ \E s \in 1..NumSalts, fault, tty \in BOOLEAN :
          dbFile.exists /\ OpenPrompt(Intruder, s, fault, tty)
    \/ \E s \in 1..NumSalts, fault \in BOOLEAN :
          dbFile.exists /\ OpenGiven(Intruder, s, fault)
    \/ Exit
    \/ add_password(<<1>>, "hunter2", FALSE)
    \/ get_password(<<1>>, FALSE)
    \/ list_passwords(FALSE)
    \/ delete_password(<<1>>, FALSE)

SpecIntruder == Init /\ [][NextIntruder]_vars

----------------------------------------------------------------------------
(* Two processes opening the same vault side by side.  The constructor is  *)
(* taken one system call on .attempts at a time: open(path, 'r') with      *)
(* json.load, open(path, 'w'), which truncates, and the close that writes  *)
(* what json.dump has buffered.                                            *)

\* the clock of this specification runs until its decimal form has grown
LastTime == MaxTime + 4

\* number of decimal digits of a number in the JSON text
RECURSIVE Digits(_)
Digits(n) == IF n < 10 THEN 1 ELSE 1 + Digits(n \div 10)

\* json.dump(attempts_data, f): the text differs in length only by the
\* digits of the two numbers
DumpSize(data) == Digits(data.count) + Digits(data.last_attempt)

\* open(attempts_file, 'w'): O_CREAT | O_TRUNC, the file is there and empty
Truncated == [kind |-> "empty", count |-> 0, last_attempt |-> 0]

\* the close of a file opened with 'w': the buffered text is written at
\* offset 0 of this descriptor; bytes that another descriptor has written
\* behind the end of this text since the truncation stay in the file
WriteAt0(file, data) ==
    IF file.kind \in {"absent", "empty"} \/ DumpSize(data) >= DumpSize(file)
    THEN data
    ELSE [file EXCEPT !.kind = "garbage"]

\* the process moves on; the locals it no longer reads are dropped
Goto(p, label) ==
    proc' = [proc EXCEPT ![p] = [IdleProc EXCEPT !.pc = label,
                                                 !.path = proc[p].path]]

\* PasswordDatabase(): _get_master_password, lines 74-116
Start(p) ==
    /\ proc[p].pc = "idle"
    /\ IF ~dbFile.exists
       THEN proc' = [proc EXCEPT ![p] = [IdleProc EXCEPT !.pc = "derive",
                                                         !.path = "create"]]
       ELSE LET data == LoadAttempts(attemptsFile)
            IN /\ data.count < MaxCount
               /\ proc' = [proc EXCEPT ![p] =
                            [pc |-> "sleep", path |-> "unlock",
                             current_time |-> now, attempts_data |-> data]]
    /\ UNCHANGED <<dbFile, saltFile, attemptsFile, now, db, ret, written,
                   session_timer, perm, clipboard, generated>>

\* lines 117-126: KeyError, or the sleep is over and getpass has returned
Wake(p) ==
    /\ proc[p].pc = "sleep"
    /\ LET data == proc[p].attempts_data
           current_time == proc[p].current_time
       IN IF LookupFails(data)
          THEN Goto(p, "done")
          ELSE /\ now >= current_time + DelayNeeded(data, current_time)
               /\ proc' = [proc EXCEPT ![p].pc = "open131",
                             ![p].current_time = 0,
                             ![p].attempts_data = RecordAttempt(data, current_time)]
    /\ UNCHANGED <<dbFile, saltFile, attemptsFile, now, db, ret, written,
                   session_timer, perm, clipboard, generated>>

\* line 131, line 57 and line 66: open(self.attempts_file, 'w')
OpenW(p) ==
    /\ proc[p].pc \in {"open131", "open57", "open66"}
    /\ attemptsFile' = Truncated
    /\ perm' = [perm EXCEPT !.attempts = ModeAfterWrite(@)]
    /\ proc' = [proc EXCEPT
                  ![p].pc = CASE proc[p].pc = "open131" -> "close131"
                              [] proc[p].pc = "open57" -> "close57"
                              [] proc[p].pc = "open66" -> "close66",
                  \* line 58: time.time() is read after the open
                  ![p].attempts_data = IF proc[p].pc = "open57"
                                       THEN AttemptsRecord(0, now) ELSE @]
    /\ UNCHANGED <<dbFile, saltFile, now, db, ret, written,
                   session_timer, clipboard, generated>>

\* the end of the with statement: what json.dump wrote reaches the file
CloseW(p) ==
    /\ proc[p].pc \in {"close131", "close57", "close66"}
    /\ attemptsFile' = WriteAt0(attemptsFile, proc[p].attempts_data)
    /\ Goto(p, IF proc[p].pc = "close131" THEN "derive" ELSE "done")
    /\ UNCHANGED <<dbFile, saltFile, now, db, ret, written,
                   session_timer, perm, clipboard, generated>>

\* __init__, lines 48-56: _derive_key, _init_db and the test of line 56
DeriveAndInit(p, fresh, fault) ==
    /\ proc[p].pc = "derive"
    /\ saltFile' = SaltAfter(saltFile, fresh)
    /\ IF fault
       THEN /\ Goto(p, "failed")
            /\ UNCHANGED <<dbFile>>
       ELSE /\ dbFile' = InitDb(dbFile)
            /\ Goto(p, IF attemptsFile.kind # "absent" THEN "open57" ELSE "done")
    /\ perm' = [perm EXCEPT
                  !.db = IF fault THEN @ ELSE OwnerOnlyFile,
                  !.dir = IF fault THEN @ ELSE OwnerOnlyDir,
                  !.salt = IF saltFile = 0 THEN OwnerOnlyFile ELSE @]
    /\ UNCHANGED <<attemptsFile, now, db, ret, written, session_timer, clipboard, generated>>

\* the handler, lines 61-65: the file is read again and the count raised
HandlerLoad(p) ==
    /\ proc[p].pc = "failed"
    /\ IF BumpOnFailure(attemptsFile) # attemptsFile
       THEN /\ attemptsFile.count < MaxCount
            /\ proc' = [proc EXCEPT ![p].pc = "open66",
                          ![p].attempts_data = BumpOnFailure(attemptsFile)]
       ELSE Goto(p, "done")
    /\ UNCHANGED <<dbFile, saltFile, attemptsFile, now, db, ret, written,
                   session_timer, perm, clipboard, generated>>

\* the process ends
Leave(p) ==
    /\ proc[p].pc = "done"
    /\ proc' = [proc EXCEPT ![p] = IdleProc]
    /\ UNCHANGED <<dbFile, saltFile, attemptsFile, now, db, ret, written,
                   session_timer, perm, clipboard, generated>>

\* time passes, up to LastTime
TickRace ==
    /\ now < LastTime
    /\ now' = now + 1
    /\ UNCHANGED <<dbFile, saltFile, attemptsFile, db, ret, written,
                   session_timer, perm, clipboard, proc, generated>>

NextRace ==
    \/ TickRace
    \/ \E p \in Procs : Start(p)
    \/ \E p \in Procs : Wake(p)
    \/ \E p \in Procs : OpenW(p)
    \/ \E p \in Procs : CloseW(p)
    \/ \E p \in Procs, fault \in BOOLEAN : DeriveAndInit(p, 1, fault)
    \/ \E p \in Procs : HandlerLoad(p)
    \/ \E p \in Procs : Leave(p)

SpecRace == Init /\ [][NextRace]_vars

----------------------------------------------------------------------------
(* password_generator.generate_password, over character sets cut down to   *)
(* a few characters each                                                   *)

ascii_lowercase == {"a", "b"}
ascii_uppercase == {"A"}
digits == {"0"}
punctuation == {"!"}

\* lines 21-29: the characters of the selected sets
CharsOf(use_lowercase, use_uppercase, use_digits, use_special) ==
    (IF use_lowercase THEN ascii_lowercase ELSE {})
    \cup (IF use_uppercase THEN ascii_uppercase ELSE {})
    \cup (IF use_digits THEN digits ELSE {})
    \cup (IF use_special THEN punctuation ELSE {})

\* lines 36-43: secrets.choice from a set that is selected, nothing otherwise
Picks(use, set) == IF use THEN {<<c>> : c \in set} ELSE {<<>>}

\* secrets.choice and random.shuffle are choices among all outcomes
generate_password(length, use_lowercase, use_uppercase, use_digits, use_special) ==
    /\ LET chars == CharsOf(use_lowercase, use_uppercase, use_digits, use_special)
       IN IF chars = {}
          THEN \* line 32: raise ValueError
               generated' = [called |-> TRUE, length |-> length, chars |-> chars,
                             raised |-> TRUE, password |-> <<>>]
          ELSE \E l \in Picks(use_lowercase, ascii_lowercase),
                  u \in Picks(use_uppercase, ascii_uppercase),
                  d \in Picks(use_digits, digits),
                  s \in Picks(use_special, punctuation) :
                  LET password == l \o u \o d \o s
                      remaining_length == length - Len(password)
                  IN \* range(remaining_length) is empty when it is negative
                     \E rest \in [1..Max(0, remaining_length) -> chars] :
                        LET filled == password \o rest
                        IN \E shuffle \in Permutations(DOMAIN filled) :
                              generated' =
                                 [called |-> TRUE, length |-> length,
                                  chars |-> chars, raised |-> FALSE,
                                  password |-> [i \in DOMAIN filled |->
                                                  filled[shuffle[i]]]]
    /\ UNCHANGED <<dbFile, saltFile, attemptsFile, now, db, ret, written,
                   session_timer, perm, clipboard, proc>>

NextGenerator ==
    \E length \in 0..MaxLength,
       use_lowercase, use_uppercase, use_digits, use_special \in BOOLEAN :
       generate_password(length, use_lowercase, use_uppercase, use_digits,
                         use_special)

SpecGenerator == Init /\ [][NextGenerator]_vars

----------------------------------------------------------------------------
(* Properties of the store *)

Range(seq) == {seq[i] : i \in DOMAIN seq}
Occurrences(seq, x) == Cardinality({i \in DOMAIN seq : seq[i] = x})
StoredTitles == {t \in Titles : written[t].present}

\* a comes before b in the lexicographic order of strings
LexBefore(a, b) ==
    \E k \in 1..(Len(a) + 1) :
       /\ \A i \in 1..(k - 1) : i <= Len(b) /\ a[i] = b[i]
       /\ IF k = Len(a) + 1 THEN Len(b) >= k
                            ELSE k <= Len(b) /\ a[k] < b[k]

\* C1: a secret added under a passphrase is what get_password returns for
\* its title in a later session (after the process that added it has ended)
\* opened with the same passphrase, as long as the title was neither added
\* again nor deleted since.
RoundTripAcrossSessions ==
    \A t \in Titles :
       ( /\ ret.op = "read" /\ ret.title = t
         /\ written[t].present /\ written[t].closedSince
         /\ db.master_password = written[t].pw )
       => ret.val = written[t].secret

RoundTripWitness ==
    \E t \in Titles :
       /\ ret.op = "read" /\ ret.title = t
       /\ written[t].present /\ written[t].closedSince
       /\ db.master_password = written[t].pw
       /\ ret.val = written[t].secret
       /\ ret.val \in Secrets

\* C2: no title is stored or listed twice; after a second add_password of a
\* title in the same session get_password returns the second secret and
\* list_passwords holds the title exactly once.
TitleUniqueUnderUpsert ==
    /\ \A t \in Titles : Len(RowsOf(dbFile.rows, t)) <= 1
    /\ ret.op = "list" => \A t \in Titles : Occurrences(ret.titles, t) <= 1
    /\ \A t \in Titles :
          (written[t].present /\ written[t].updated /\ ~written[t].closedSince)
          => /\ (ret.op = "read" /\ ret.title = t) => ret.val = written[t].secret
             /\ ret.op = "list" => Occurrences(ret.titles, t) = 1

UpsertReadWitness ==
    \E t \in Titles :
       /\ written[t].present /\ written[t].updated /\ ~written[t].closedSince
       /\ ret.op = "read" /\ ret.title = t
       /\ ret.val = written[t].secret
       /\ Len(dbFile.rows) > 1

\* C3: delete_password returns True exactly when a row of the title existed;
\* it removes that row and no other; a title that is not stored reads as
\* None and is not listed; deleting a title that is not stored changes
\* nothing in the table.
DeleteContract ==
    /\ [](\A t \in Titles :
            ~written[t].present =>
               /\ (ret.op = "read" /\ ret.title = t) => ret.val = None
               /\ ret.op = "list" => t \notin Range(ret.titles))
    /\ [][\A t \in Titles :
            delete_password(t, FALSE) =>
               /\ ret'.ok = HasTitle(dbFile.rows, t)
               /\ ~HasTitle(dbFile'.rows, t)
               /\ \A u \in Titles \ {t} :
                     RowsOf(dbFile'.rows, u) = RowsOf(dbFile.rows, u)
               /\ ~HasTitle(dbFile.rows, t) => dbFile' = dbFile]_vars

DeleteWitness ==
    /\ ret.op = "delete" /\ ret.ok
    /\ ~HasTitle(dbFile.rows, ret.title)
    /\ Len(dbFile.rows) = 2

\* C4: list_passwords returns the titles that were added and not deleted
\* since, each once, in ascending lexicographic order, and leaves the table
\* as it was.
ListContract ==
    /\ [](ret.op = "list" =>
            /\ Range(ret.titles) = StoredTitles
            /\ Len(ret.titles) = Cardinality(StoredTitles)
            /\ \A i, j \in DOMAIN ret.titles :
                  i < j => LexBefore(ret.titles[i], ret.titles[j]))
    /\ [][list_passwords(FALSE) => dbFile' = dbFile /\ written' = written]_vars

ListWitness ==
    /\ ret.op = "list"
    /\ Len(ret.titles) = 3
    /\ dbFile.rows[1].title # ret.titles[1]
    /\ ret.titles = << <<1>>, <<1, 2>>, <<2>> >>

\* C5: get_password returns None only when no row of the title exists.
ReadAbsentOnlyWhenMissing ==
    (ret.op = "read" /\ ret.val = None) => ~HasTitle(dbFile.rows, ret.title)

----------------------------------------------------------------------------
(* Properties of the throttle *)

CountOf(file) == IF HasCount(file) THEN file.count ELSE 0

\* a step that is an open of either kind
OpenStep ==
    \/ \E p \in Passphrases, s \in 1..NumSalts, fault, tty \in BOOLEAN :
          OpenPrompt(p, s, fault, tty)
    \/ \E p \in Passphrases, s \in 1..NumSalts, fault \in BOOLEAN :
          OpenGiven(p, s, fault)

\* the open got as far as deriving the key from the passphrase
Processed(r) == r.op = "open" /\ r.val \in {"ok", "Error"}

\* a step of an operation other than an open
OtherOperationStep ==
    \/ Exit
    \/ \E dberr \in BOOLEAN : add_password(<<1>>, "hunter2", dberr)
    \/ \E dberr \in BOOLEAN : get_password(<<1>>, dberr)
    \/ \E dberr \in BOOLEAN : list_passwords(dberr)
    \/ \E dberr \in BOOLEAN : delete_password(<<1>>, dberr)

\* C6: an open of an existing vault that starts with a persisted count of
\* at least 3 and less than the cooldown after the persisted last attempt
\* does not derive the key before the cooldown has passed.
ThrottleDelaysNextAttempt ==
    [][( /\ OpenStep
         /\ dbFile.exists
         /\ failedCount >= Threshold
         /\ now - attemptsFile.last_attempt < Cooldown
         /\ Processed(ret') )
       => now' >= attemptsFile.last_attempt + Cooldown]_vars

\* C7: an open of an existing vault that fails adds exactly 1 to the
\* persisted count, one that succeeds sets it to 0, and no other operation
\* changes it.
CounterUpdate ==
    [][/\ (OpenStep /\ dbFile.exists /\ Processed(ret')) =>
             IF ret'.ok THEN CountOf(attemptsFile') = 0
                        ELSE CountOf(attemptsFile') = failedCount + 1
       /\ OtherOperationStep => CountOf(attemptsFile') = failedCount]_vars

\* C8: the end of a process leaves the attempt file as it is, and a failed
\* open made by the next process adds to the count it finds there.
ThrottleSurvivesRestart ==
    [][/\ Exit => attemptsFile' = attemptsFile
       /\ ( /\ ret.op = "exit" /\ OpenStep /\ Processed(ret') /\ ~ret'.ok
            /\ attemptsFile.kind = "ok" )
          => /\ attemptsFile'.kind = "ok"
             /\ attemptsFile'.count > attemptsFile.count]_vars

ThrottledAfterRestartsWitness ==
    /\ ret.op = "exit"
    /\ attemptsFile.kind = "ok"
    /\ attemptsFile.count >= Threshold
    /\ ~db.open

\* C9: whatever the attempt file holds other than a full record, an open of
\* an existing vault goes through without delay and without error.
DamagedFileTreatedAsReset ==
    [][\A p \in Passphrases, s \in 1..NumSalts :
          ( /\ OpenPrompt(p, s, FALSE, TRUE) \/ OpenGiven(p, s, FALSE)
            /\ dbFile.exists
            /\ attemptsFile.kind # "ok" )
          => now' = now /\ ret'.ok]_vars

\* C10: every open of an existing vault that derives the key has first
\* waited for the cooldown the persisted record asks for and has recorded
\* the attempt, however the passphrase came in.
ThrottleAlwaysConsulted ==
    [][(OpenStep /\ dbFile.exists /\ Processed(ret'))
       => /\ now' = now + DelayNeeded(LoadAttempts(attemptsFile), now)
          /\ attemptsFile'.kind = "ok"]_vars

----------------------------------------------------------------------------
(* Properties of the session *)

\* the object is there and its key has been set to None
Scrubbed == db.open /\ db.encryption_key = NoKey

\* the call ended in an exception
Raised(r) == r.val \in {"AttributeError", "NotUnlockedError"}

\* a step of one of the four operations of the store
StoreOperationStep ==
    \/ add_password(<<1>>, "hunter2", FALSE)
    \/ get_password(<<1>>, FALSE)
    \/ list_passwords(FALSE)
    \/ delete_password(<<1>>, FALSE)

\* C11: an operation called after the key has been scrubbed fails with an
\* error and leaves the table as it was.
ScrubbedSessionRejects ==
    [][(Scrubbed /\ StoreOperationStep)
       => (Raised(ret') /\ dbFile' = dbFile)]_vars

\* C12: once the idle timer has fired, no operation of the store is carried
\* out in that session: none returns a result and the table stays as it is.
NoOperationAfterTimeout ==
    [][session_timer.state = "fired"
       => /\ ~(StoreOperationStep /\ ~Raised(ret'))
          /\ dbFile' = dbFile]_vars

\* C13: every operation that succeeds while the timer runs replaces it by a
\* timer that is due a full timeout after the operation.
TimerResetOnOperation ==
    [][(session_timer.state = "armed" /\ ~Scrubbed /\ StoreOperationStep)
       => session_timer' = StartTimer(now)]_vars

----------------------------------------------------------------------------
(* Properties of what the store accepts *)

\* C14: add_password, get_password and delete_password called with the
\* empty title or a title holding one of ' " ; \ end in a validation error
\* and leave the table as it was.
RefusedTitleRejected ==
    [][\A t \in CallerTitles :
          ( /\ ~ValidTitle(t)
            /\ \/ add_password(t, "hunter2", FALSE)
               \/ get_password(t, FALSE)
               \/ delete_password(t, FALSE) )
          => (ret'.val = "ValidationError" /\ dbFile' = dbFile)]_vars

\* C15: the open that creates the vault does so under a passphrase that
\* passes the strength check.
VaultCreatedUnderStrongPassphrase ==
    [][(~dbFile.exists /\ dbFile'.exists)
       => IsStrong(db'.master_password)]_vars

----------------------------------------------------------------------------
(* Properties of the files *)

\* C16: once written, the salt file keeps its content; there is a salt
\* whenever there is a vault; the key of every session is the one derived
\* from its passphrase and that salt.
SaltWrittenOnce ==
    /\ [][saltFile # 0 => saltFile' = saltFile]_vars
    /\ [](dbFile.exists => saltFile # 0)
    /\ [](db.open => db.encryption_key = DeriveKey(db.master_password, saltFile))

SaltReusedWitness ==
    /\ saltFile # 0
    /\ ret.op = "open" /\ ret.ok
    /\ written[<<1>>].present /\ written[<<1>>].closedSince
    /\ db.master_password # written[<<1>>].pw

\* C17: after an open that succeeded, the database, the salt file and the
\* attempt file (when it exists) have mode 600 and the directory mode 700.
OwnerOnlyAfterOpen ==
    (ret.op = "open" /\ ret.ok)
    => /\ perm.db = OwnerOnlyFile
       /\ perm.salt = OwnerOnlyFile
       /\ perm.attempts \in {NoMode, OwnerOnlyFile}
       /\ perm.dir = OwnerOnlyDir

\* C18: a copy_to_clipboard with clear_after > 0 that returns True has
\* scheduled the clearing of the clipboard clear_after seconds later.
ClipboardClearScheduled ==
    [][\A system \in Systems, tool \in Tools, returncode \in {0, 1} :
          ( /\ copy_to_clipboard("hunter2", ClearAfter, system, tool, returncode)
            /\ ret'.ok )
          => clipboard'.clear_at = now + ClearAfter]_vars

\* C19: every open of an existing vault that derives the key leaves the
\* time of this attempt as last_attempt in the attempt file.
LastAttemptIsThisAttempt ==
    [][(OpenStep /\ dbFile.exists /\ Processed(ret'))
       => /\ attemptsFile'.kind = "ok"
          /\ attemptsFile'.last_attempt >= now
          /\ attemptsFile'.last_attempt <= now']_vars

\* C20: a prompted open of an existing vault with a persisted count of at
\* least 3 is not refused; it waits max(0, cooldown - (now - last_attempt)),
\* never more than the cooldown, and is then processed.
ThrottledWaitBounded ==
    [][\A p \in Passphrases, s \in 1..NumSalts, fault \in BOOLEAN :
          ( /\ OpenPrompt(p, s, fault, TRUE)
            /\ dbFile.exists
            /\ failedCount >= Threshold )
          => /\ Processed(ret')
             /\ now' - now = Max(0, Cooldown - (now - attemptsFile.last_attempt))
             /\ now' - now <= Cooldown]_vars

----------------------------------------------------------------------------
(* Properties of processes side by side *)

\* every process has run an unlock of the existing vault to its end
BothFinished ==
    \A p \in Procs : proc[p].pc = "done" /\ proc[p].path = "unlock"

\* C21: when two processes that ran an unlock of the existing vault side
\* by side have both finished, the attempt file exists and holds a
\* well-formed record of count and last_attempt.
AttemptRecordSurvivesRace ==
    BothFinished => attemptsFile.kind = "ok"

----------------------------------------------------------------------------
(* Properties of a vault opened under another passphrase *)

\* an open of the existing vault with the passphrase it was not made with
IntruderOpenStep ==
    /\ dbFile.exists
    /\ \/ \E s \in 1..NumSalts, fault, tty \in BOOLEAN :
             OpenPrompt(Intruder, s, fault, tty)
       \/ \E s \in 1..NumSalts, fault \in BOOLEAN :
             OpenGiven(Intruder, s, fault)

\* C22: an open of the existing vault with a passphrase other than the one
\* it was created with, once the passphrase is taken, leaves the persisted
\* count neither at 0 nor lower than it was: each such attempt adds at
\* least 1, so N of them in a row leave a count of at least N.
WrongPassphraseCounts ==
    [][(IntruderOpenStep /\ Processed(ret'))
       => CountOf(attemptsFile') >= failedCount + 1]_vars

\* the key an entry has to be sealed under: Owner's, with the vault's salt
OwnerKey == DeriveKey(Owner, saltFile)

\* C23: every row of the table is sealed under the key of the passphrase
\* the vault was created with, and no step of a session opened with another
\* passphrase changes the table, so what the owner could read stays
\* readable.
SingleKeyInvariant ==
    /\ [](\A i \in DOMAIN dbFile.rows : dbFile.rows[i].password.k = OwnerKey)
    /\ [][(db.open /\ db.master_password = Intruder) => dbFile' = dbFile]_vars

----------------------------------------------------------------------------
(* Properties of the generator *)

\* C24: generate_password called with a length of 0 or more returns exactly
\* that many characters, each from the selected sets, when a set is
\* selected, and raises ValueError, returning nothing, when none is.
GeneratedLengthAndAlphabet ==
    generated.called =>
       IF generated.chars = {}
       THEN generated.raised /\ generated.password = <<>>
       ELSE /\ ~generated.raised
            /\ Len(generated.password) = generated.length
            /\ \A i \in DOMAIN generated.password :
                  generated.password[i] \in generated.chars

====
